---------------------------- MODULE Spec2Model ----------------------------
(***************************************************************************)
(* A model of parabolic_sim.py: a cube in a time-modulated parabolic       *)
(* pressure field, integrated over a fixed time grid, then downsampled     *)
(* and plotted.                                                            *)
(*                                                                         *)
(* Numbers.  The script computes in IEEE doubles.  The model computes in   *)
(* exact rational arithmetic: a number is a pair <<n, d>> in lowest terms  *)
(* with d > 0 (and <<1, 0>>, <<-1, 0>> stand for float('inf') and          *)
(* float('-inf')).  Every arithmetic expression of the script is           *)
(* translated operator by operator, in the script's order of evaluation.   *)
(* Equalities established here therefore hold of the script up to          *)
(* floating-point rounding.                                                *)
(*                                                                         *)
(* Literals.  The script fixes one value for each of its module-level      *)
(* literals (lines 5-16, 45, 86).  The model lets each range over a small  *)
(* set of stand-in values, chosen where the script binds the name (Init,   *)
(* and Downsample for the stride), so that runs of a few steps stay inside *)
(* TLC's integers; the relations between the quantities are the script's.  *)
(* No divisor of the script is zero.  density, angular_frequency and k     *)
(* (lines 9, 20, 21) are never read by the script and are left out.        *)
(***************************************************************************)
EXTENDS Integers, Sequences, FiniteSets, TLC

VARIABLES
    frequency, amplitude, speed_of_sound,      \* lines 5-7
    cube_mass, cube_area, cube_width,          \* lines 10-12
    time_duration, time_steps, time,           \* lines 15-17
    x, v, dt,                                  \* lines 44-46
    min_x, max_x,                              \* line 49
    min_pressure_front, max_pressure_front,    \* line 50
    min_pressure_back, max_pressure_back,      \* line 51
    min_force, max_force,                      \* line 52
    pressures_front, pressures_back, net_forces, \* lines 55-57
    i,                                         \* instants of `time` consumed by the for loop
    downsample_factor,                         \* line 86
    time_downsampled, x_downsampled,           \* lines 89-90
    pressures_front_downsampled,               \* line 91
    pressures_back_downsampled,                \* line 92
    net_forces_downsampled,                    \* line 93
    pc                                         \* "loop" (60-83), "plot" (96-130), "done"

literals == <<frequency, amplitude, speed_of_sound, cube_mass, cube_area,
              cube_width, time_duration, time_steps, time, dt>>
minmax == <<min_x, max_x, min_pressure_front, max_pressure_front,
            min_pressure_back, max_pressure_back, min_force, max_force>>
series == <<x, pressures_front, pressures_back, net_forces>>
views == <<downsample_factor, time_downsampled, x_downsampled, pressures_front_downsampled,
           pressures_back_downsampled, net_forces_downsampled>>
vars == <<literals, minmax, series, views, v, i, pc>>

----------------------------------------------------------------------------
(* Bounds of the model. *)
MaxSteps == 4
MaxStride == 3

----------------------------------------------------------------------------
(* Exact arithmetic standing for the script's float arithmetic. *)

Abs(n) == IF n < 0 THEN -n ELSE n

\* Each operation binds its operands to their values before it uses them,
\* so that an operand is evaluated once however often it is read.

RECURSIVE GCD(_, _)
GCD(a, b) ==
    IF b = 0 THEN a
    ELSE CHOOSE r \in {GCD(p[1], p[2]) : p \in {<<b, a % b>>}} : TRUE

NormTerms(n, d) == LET g == GCD(Abs(n), d) IN <<n \div g, d \div g>>

RNorm(n, d) == CHOOSE r \in {NormTerms(p[1], p[2]) : p \in {<<n, d>>}} : TRUE

R(n) == <<n, 1>>

Frac(n, d) == RNorm(n, d)

RNeg(a) == CHOOSE r \in {<<-p[1], p[2]>> : p \in {a}} : TRUE

AddTerms(a, b) ==
    LET g == GCD(a[2], b[2])
        l == (a[2] \div g) * b[2]
    IN  RNorm(a[1] * (l \div a[2]) + b[1] * (l \div b[2]), l)

RAdd(a, b) == CHOOSE r \in {AddTerms(p[1], p[2]) : p \in {<<a, b>>}} : TRUE

RSub(a, b) == RAdd(a, RNeg(b))

MulTerms(a, b) ==
    LET g1 == GCD(Abs(a[1]), b[2])
        g2 == GCD(Abs(b[1]), a[2])
    IN  RNorm((a[1] \div g1) * (b[1] \div g2), (a[2] \div g2) * (b[2] \div g1))

RMul(a, b) == CHOOSE r \in {MulTerms(p[1], p[2]) : p \in {<<a, b>>}} : TRUE

InvTerms(a) == IF a[1] > 0 THEN <<a[2], a[1]>> ELSE <<-a[2], -a[1]>>

RInv(a) == CHOOSE r \in {InvTerms(p) : p \in {a}} : TRUE

RDiv(a, b) == RMul(a, RInv(b))

RSq(a) == CHOOSE r \in {MulTerms(p, p) : p \in {a}} : TRUE

\* a < b: with an infinity on either side by cross-multiplication, between
\* finite numbers by the sign of a - b
RLt(a, b) ==
    IF a[2] = 0 \/ b[2] = 0 THEN a[1] * b[2] < b[1] * a[2]
    ELSE RSub(a, b)[1] < 0

RLe(a, b) == ~RLt(b, a)

RMin(a, b) == IF RLt(b, a) THEN b ELSE a

RMax(a, b) == IF RLt(a, b) THEN b ELSE a

inf == <<1, 0>>

neg_inf == <<-1, 0>>

np_pi == Frac(355, 113)

----------------------------------------------------------------------------
(* Stand-in values of the script's literals.  Time is measured in units of *)
(* the integrator's step, so time_duration is a whole multiple of           *)
(* time_steps; lengths are measured in half wavelengths.                    *)
FrequencyValues == {R(1)}
AmplitudeValues == {R(1), R(2)}
SpeedOfSoundValues == {R(2), R(4)}
CubeMassValues == {Frac(1, 2), R(1)}
CubeAreaValues == {R(1)}
CubeWidthValues == {R(1), R(2)}
StepLengthValues == {R(1), R(2)}
VelocityValues == {Frac(1, 2), R(1)}

----------------------------------------------------------------------------
(* Field model, lines 8 and 24-41. *)

wavelength == RDiv(speed_of_sound, frequency)

\* A variant of COffset whose parabola is centred on the run's midpoint.
COffset_centred(t) ==
    LET half == RDiv(time_duration, R(2))
    IN  RAdd(RMul(amplitude,
                  RSub(R(1), RSq(RDiv(RSub(t, half), half)))),
             R(1))

\* line 28: C = amplitude * (1 - (t / (time_duration / 2))**2) + 1
COffset(t) ==
    RAdd(RMul(amplitude,
              RSub(R(1), RSq(RDiv(t, RDiv(time_duration, R(2)))))),
         R(1))

\* A variant of pressure that reads its offset parameter.
pressure_reading_offset(px, t, offset) ==
    LET A == RDiv(RNeg(amplitude), RSq(RDiv(wavelength, R(2))))
        B == RDiv(amplitude, RDiv(wavelength, R(2)))
        C == COffset(t)
    IN  RAdd(RAdd(RAdd(RMul(A, RSq(px)), RMul(B, px)), C), offset)

\* A variant of pressure in which the time term scales the parabola.
pressure_modulated(px, t, offset) ==
    LET A == RDiv(RNeg(amplitude), RSq(RDiv(wavelength, R(2))))
        B == RDiv(amplitude, RDiv(wavelength, R(2)))
        C == COffset(t)
    IN  RMul(RAdd(RMul(A, RSq(px)), RMul(B, px)), C)

\* lines 24-29; the parameter offset is accepted and never read
pressure(px, t, offset) ==
    LET A == RDiv(RNeg(amplitude), RSq(RDiv(wavelength, R(2))))
        B == RDiv(amplitude, RDiv(wavelength, R(2)))
        C == COffset(t)
    IN  RAdd(RAdd(RMul(A, RSq(px)), RMul(B, px)), C)

\* lines 31-41; pressure is called with its default offset=0
net_force(px, t) ==
    LET pressure_front == pressure(RAdd(px, RDiv(cube_width, R(2))), t, R(0))
        pressure_back == pressure(RSub(px, RDiv(cube_width, R(2))), t, R(0))
        pressure_diff == RSub(pressure_back, pressure_front)
        pressure_force == RMul(pressure_diff, cube_area)
    IN  pressure_force

----------------------------------------------------------------------------
(* Library operations the script calls. *)

\* A variant of linspace that leaves the endpoint out (endpoint=False).
linspace_open(start, stop, num) ==
    LET step == RDiv(RSub(stop, start), R(num))
    IN  [j \in 1..num |-> RAdd(RMul(R(j - 1), step), start)]

\* np.linspace(start, stop, num) with endpoint=True: num samples, step
\* (stop - start) / (num - 1), the last sample set to stop itself.
linspace(start, stop, num) ==
    IF num = 1 THEN <<start>>
    ELSE LET step == RDiv(RSub(stop, start), R(num - 1))
         IN  [j \in 1..num |->
                 IF j = num THEN stop
                 ELSE RAdd(RMul(R(j - 1), step), start)]

\* A variant of PySlice that takes a negative bound for the end of s.
PySlice_no_negative(s, start, stop, step) ==
    LET len == Len(s)
        clip(b) == IF b < 0 \/ b > len THEN len ELSE b
        lo == IF start < 0 THEN 0 ELSE clip(start)
        hi == clip(stop)
        n == IF lo < hi THEN (hi - lo - 1) \div step + 1 ELSE 0
    IN  [j \in 1..n |-> s[lo + (j - 1) * step + 1]]

\* s[start:stop:step] for step > 0 on a 0-based sequence held 1-based here:
\* negative bounds count from the end, both are clipped to [0, len], and
\* the slice holds s[start], s[start+step], ... below stop.
PySlice(s, start, stop, step) ==
    LET len == Len(s)
        clip(b) == IF b < 0 THEN (IF b + len < 0 THEN 0 ELSE b + len)
                   ELSE (IF b > len THEN len ELSE b)
        lo == clip(start)
        hi == clip(stop)
        n == IF lo < hi THEN (hi - lo - 1) \div step + 1 ELSE 0
    IN  [j \in 1..n |-> s[lo + (j - 1) * step + 1]]

----------------------------------------------------------------------------
(* Integration loop, lines 60-83. *)

\* A variant of HasNext that stops before the last instant.
HasNext_skips_last == i + 1 < Len(time)

\* A variant of HasNext that leaves the loop once the cube has moved
\* further than a quarter wavelength from the origin.
HasNext_until_diverged ==
    /\ i < Len(time)
    /\ RLe(RSq(x[Len(x)]), RSq(RDiv(wavelength, R(4))))

\* line 60: the for loop has another instant to hand out
HasNext == i < Len(time)

\* A variant of position_update with dt in place of dt**2.
position_update_linear(xl, vel, a, step) ==
    RAdd(RAdd(xl, RMul(vel, step)), RMul(RMul(Frac(1, 2), a), step))

\* line 70: x_new = x[-1] + v * dt + 0.5 * a * dt**2
position_update(xl, vel, a, step) ==
    RAdd(RAdd(xl, RMul(vel, step)), RMul(RMul(Frac(1, 2), a), RSq(step)))

\* A variant of carried_velocity that integrates the acceleration.
carried_velocity_euler(vel, a, step) == RAdd(vel, RMul(a, step))

\* lines 60-83: the loop body never rebinds v
carried_velocity(vel, a, step) == vel

\* A variant of append that writes over the last element.
append_in_place(list, item) ==
    IF list = <<>> THEN <<item>> ELSE [list EXCEPT ![Len(list)] = item]

\* lines 64, 65, 71, 73: list.append(item)
append(list, item) == Append(list, item)

\* The factor by which one step stretches the position is 1 + Stiffness:
\* x_new = x * (1 + Stiffness) + (v * dt - Stiffness * (wavelength / 2) / 2).
\* Init keeps the combinations of stand-in values whose Stiffness is a small
\* number of halves, so that positions stay inside TLC's integers.
Stiffness ==
    RDiv(RMul(RMul(RMul(amplitude, cube_area), cube_width), RSq(dt)),
         RMul(cube_mass, RSq(RDiv(wavelength, R(2)))))

Tame == Stiffness[2] <= 2 /\ RLe(Stiffness, R(8))

\* lines 5-57: the state when the for loop is first reached.  The names the
\* script binds only after the loop start as 0 (downsample_factor, line 86)
\* and as empty sequences (lines 89-93).
Init ==
    /\ frequency \in FrequencyValues
    /\ amplitude \in AmplitudeValues
    /\ speed_of_sound \in SpeedOfSoundValues
    /\ cube_mass \in CubeMassValues
    /\ cube_area \in CubeAreaValues
    /\ cube_width \in CubeWidthValues
    /\ time_steps \in 2..MaxSteps
    /\ time_duration \in {RMul(R(time_steps), u) : u \in StepLengthValues}
    /\ time = linspace(R(0), time_duration, time_steps)
    /\ x = <<R(0)>>
    /\ v \in VelocityValues
    /\ dt = RDiv(time_duration, R(time_steps))
    /\ Tame
    /\ min_x = inf /\ max_x = neg_inf
    /\ min_pressure_front = inf /\ max_pressure_front = neg_inf
    /\ min_pressure_back = inf /\ max_pressure_back = neg_inf
    /\ min_force = inf /\ max_force = neg_inf
    /\ pressures_front = <<>>
    /\ pressures_back = <<>>
    /\ net_forces = <<>>
    /\ i = 0
    /\ downsample_factor = 0
    /\ time_downsampled = <<>>
    /\ x_downsampled = <<>>
    /\ pressures_front_downsampled = <<>>
    /\ pressures_back_downsampled = <<>>
    /\ net_forces_downsampled = <<>>
    /\ pc = "loop"

\* lines 60-83: one iteration of `for t in time`
Step ==
    /\ pc = "loop"
    /\ HasNext
    /\ LET t == time[i + 1]
           xl == x[Len(x)]
           pressure_front == pressure(RAdd(xl, RDiv(cube_width, R(2))), t, R(0))
           pressure_back == pressure(RSub(xl, RDiv(cube_width, R(2))), t, np_pi)
           F == net_force(xl, t)
           a == RDiv(F, cube_mass)
           x_new == position_update(xl, v, a, dt)
       IN  /\ pressures_front' = append(pressures_front, pressure_front)
           /\ pressures_back' = append(pressures_back, pressure_back)
           /\ x' = append(x, x_new)
           /\ v' = carried_velocity(v, a, dt)
           /\ net_forces' = append(net_forces, F)
           /\ min_x' = RMin(min_x, x_new)
           /\ max_x' = RMax(max_x, x_new)
           /\ min_pressure_front' = RMin(min_pressure_front, pressure_front)
           /\ max_pressure_front' = RMax(max_pressure_front, pressure_front)
           /\ min_pressure_back' = RMin(min_pressure_back, pressure_back)
           /\ max_pressure_back' = RMax(max_pressure_back, pressure_back)
           /\ min_force' = RMin(min_force, F)
           /\ max_force' = RMax(max_force, F)
    /\ i' = i + 1
    /\ UNCHANGED <<literals, views, pc>>

\* lines 85-93: reached when the for loop has run out of instants; the
\* stride set on line 86 is a stand-in value
Downsample ==
    /\ pc = "loop"
    /\ ~HasNext
    /\ downsample_factor' \in 1..MaxStride
    /\ time_downsampled' = PySlice(time, 0, Len(time), downsample_factor')
    /\ x_downsampled' = PySlice(x, 0, -1, downsample_factor')
    /\ pressures_front_downsampled' =
           PySlice(pressures_front, 0, Len(pressures_front), downsample_factor')
    /\ pressures_back_downsampled' =
           PySlice(pressures_back, 0, Len(pressures_back), downsample_factor')
    /\ net_forces_downsampled' =
           PySlice(net_forces, 0, Len(net_forces), downsample_factor')
    /\ pc' = "plot"
    /\ UNCHANGED <<literals, minmax, series, v, i>>

\* lines 95-130: the figure is drawn from the downsampled views and shown;
\* nothing the script holds is written
Plot ==
    /\ pc = "plot"
    /\ pc' = "done"
    /\ UNCHANGED <<literals, minmax, series, views, v, i>>

Next == Step \/ Downsample \/ Plot

Spec == Init /\ [][Next]_vars

\* The script is one sequential thread: whatever statement is next is run.
FairSpec == Spec /\ WF_vars(Next)

----------------------------------------------------------------------------
(* Properties. *)

half_width == RDiv(cube_width, R(2))

\* Sample arguments for the properties stated for all x and all t.
ProbeX == {Frac(-1, 2), R(0), Frac(1, 3), R(2)}
ProbeT == {R(0), Frac(1, 2), R(3)}

\* C1: after k completed iterations (0 <= k <= time_steps) the trajectory
\* holds k + 1 positions and each of pressures_front, pressures_back and
\* net_forces holds k values; once the loop is over the trajectory holds
\* time_steps + 1 positions and each derived series time_steps values.
C1_Lengths ==
    /\ i \in 0..time_steps
    /\ Len(x) = i + 1
    /\ Len(pressures_front) = i
    /\ Len(pressures_back) = i
    /\ Len(net_forces) = i
    /\ pc # "loop" =>
          /\ Len(x) = time_steps + 1
          /\ Len(pressures_front) = time_steps
          /\ Len(pressures_back) = time_steps
          /\ Len(net_forces) = time_steps

C1_Witness == pc = "plot" /\ time_steps = MaxSteps /\ Len(x) = MaxSteps + 1

\* C2: x[0] = 0 and, for every completed step j, the force recorded for
\* the step is net_force at the position before the update and at the
\* j-th grid instant, and the position appended by the step is
\* x + v*dt + 0.5*(F/cube_mass)*dt^2 with dt = time_duration/time_steps.
C2_Transition ==
    /\ x[1] = R(0)
    /\ dt = RDiv(time_duration, R(time_steps))
    /\ \A j \in 1..Len(net_forces) :
          /\ net_forces[j] = net_force(x[j], time[j])
          /\ x[j + 1] =
                RAdd(RAdd(x[j], RMul(v, dt)),
                     RMul(RMul(Frac(1, 2), RDiv(net_forces[j], cube_mass)),
                          RMul(dt, dt)))

C2_Witness ==
    /\ i >= 2
    /\ dt # R(1)
    /\ net_forces[1] = net_force(R(0), R(0))
    /\ net_forces[2] # net_forces[1]

\* C3: no step of the run changes the carried velocity v, whatever force
\* and acceleration the step computes.
C3_VelocityFixed == [][v' = v]_vars

C3_Witness == i >= 2 /\ net_forces[1] # R(0) /\ net_forces[2] # R(0)

\* C4: net_force(x, t) is (pressure(x - w/2, t) - pressure(x + w/2, t)) *
\* cube_area, and every recorded step agrees with it: net_forces[j] is
\* (pressures_back[j] - pressures_front[j]) * cube_area, the back pressure
\* recorded with offset=np.pi being the pressure computed with no offset.
C4_ForceFromPressures ==
    /\ \A px \in ProbeX, t \in ProbeT :
          net_force(px, t) =
             RMul(RSub(pressure(RSub(px, half_width), t, R(0)),
                       pressure(RAdd(px, half_width), t, R(0))),
                  cube_area)
    /\ \A j \in 1..Len(net_forces) :
          /\ net_forces[j] =
                RMul(RSub(pressures_back[j], pressures_front[j]), cube_area)
          /\ pressures_back[j] = pressure(RSub(x[j], half_width), time[j], R(0))
          /\ pressures_front[j] = pressure(RAdd(x[j], half_width), time[j], R(0))

C4_Witness ==
    /\ i >= 2
    /\ pressures_back[2] # pressures_front[2]
    /\ net_forces[2] # R(0)

\* The grid is strictly increasing, holds time_steps instants, starts at 0
\* and ends at time_duration.
GridSpansRun ==
    /\ Len(time) = time_steps
    /\ time[1] = R(0)
    /\ time[time_steps] = time_duration
    /\ \A j \in 1..(time_steps - 1) : RLt(time[j], time[j + 1])

\* C5 as stated: the grid spans [0, time_duration] and its spacing is the
\* integrator's step, time[j] = j * dt (j counted from 0).
C5_SpacingIsDt ==
    /\ GridSpansRun
    /\ \A j \in 1..time_steps : time[j] = RMul(R(j - 1), dt)

\* C5: the time grid is a strictly increasing sequence of time_steps
\* instants from 0 to time_duration whose uniform spacing is
\* time_duration / (time_steps - 1), which is larger than the integrator's
\* step dt = time_duration / time_steps: time[j] = j * time_duration /
\* (time_steps - 1) (j counted from 0), and time[j] = j * dt for j = 0 only.
C5_Grid ==
    LET spacing == RDiv(time_duration, R(time_steps - 1))
    IN  /\ GridSpansRun
        /\ dt = RDiv(time_duration, R(time_steps))
        /\ RLt(dt, spacing)
        /\ \A j \in 1..time_steps : time[j] = RMul(R(j - 1), spacing)
        /\ \A j \in 1..(time_steps - 1) : RSub(time[j + 1], time[j]) = spacing
        /\ \A j \in 2..time_steps : time[j] # RMul(R(j - 1), dt)

C5_Witness == i = time_steps /\ time_steps >= 3 /\ pc = "loop"

midpoint == RDiv(time_duration, R(2))

\* C6 as stated: C(time_duration/2) = 1 is the minimum of C over the run,
\* C(t) >= C(time_duration/2) at every grid instant t.
C6_MinimumAtMidpoint ==
    /\ COffset(midpoint) = R(1)
    /\ \A j \in 1..Len(time) : RLe(COffset(midpoint), COffset(time[j]))

\* C6: C(t) = amplitude*(1 - (t/(time_duration/2))^2) + 1 is largest at
\* t = 0, where it is amplitude + 1, and strictly decreasing along the time
\* grid; C(time_duration/2) = 1 exactly; C(t) >= C(time_duration/2) at the
\* grid instants t <= time_duration/2 and C(t) < C(time_duration/2) at the
\* later ones; the minimum over the grid is at t = time_duration, where C
\* is 1 - 3*amplitude.
C6_Offset ==
    /\ COffset(midpoint) = R(1)
    /\ COffset(R(0)) = RAdd(amplitude, R(1))
    /\ COffset(time_duration) = RSub(R(1), RMul(R(3), amplitude))
    /\ \A j \in 1..Len(time) :
          /\ RLe(time[j], midpoint) => RLe(COffset(midpoint), COffset(time[j]))
          /\ RLt(midpoint, time[j]) => RLt(COffset(time[j]), COffset(midpoint))
          /\ RLe(COffset(time[j]), COffset(R(0)))
          /\ RLe(COffset(time_duration), COffset(time[j]))
          /\ j < Len(time) => RLt(COffset(time[j + 1]), COffset(time[j]))

\* The loop has evaluated the field at an instant before and at an instant
\* after the midpoint.
C6_Witness ==
    /\ i = time_steps
    /\ \E j \in 2..Len(time) : RLt(time[j], midpoint)
    /\ \E j \in 1..Len(time) : RLt(midpoint, time[j])

\* ceil(n / k)
CeilDiv(n, k) == (n + k - 1) \div k

\* C7: the downsampling step leaves the grid and the four series as they
\* were and gives each of the five views length ceil(time_steps / k), k the
\* stride, with view[j] = series[j * k] for every j (counted from 0); the
\* trajectory is taken without its final element.
C7_Downsample ==
    [][(pc = "loop" /\ pc' = "plot") =>
          LET k == downsample_factor'
              n == CeilDiv(time_steps, k)
          IN  /\ UNCHANGED <<time, x, pressures_front, pressures_back, net_forces>>
              /\ Len(time_downsampled') = n
              /\ Len(x_downsampled') = n
              /\ Len(pressures_front_downsampled') = n
              /\ Len(pressures_back_downsampled') = n
              /\ Len(net_forces_downsampled') = n
              /\ \A j \in 0..(n - 1) :
                    /\ time_downsampled'[j + 1] = time[j * k + 1]
                    /\ x_downsampled'[j + 1] = x[j * k + 1]
                    /\ pressures_front_downsampled'[j + 1] = pressures_front[j * k + 1]
                    /\ pressures_back_downsampled'[j + 1] = pressures_back[j * k + 1]
                    /\ net_forces_downsampled'[j + 1] = net_forces[j * k + 1]
              /\ \A j \in 0..time_steps :
                    j * k < Len(x) - 1 => j < n
    ]_vars

C7_Witness ==
    /\ pc = "plot"
    /\ downsample_factor >= 2
    /\ Len(x_downsampled) >= 2
    /\ x_downsampled[2] = x[downsample_factor + 1]
    /\ x_downsampled[2] # x_downsampled[1]

\* C8: the loop runs once for each grid instant, in grid order, and the
\* script always gets through it: nothing is downsampled or plotted before
\* all time_steps instants have been processed, every step processes the
\* next instant of the grid, and the script reaches its end.
C8_Terminates ==
    /\ [](pc # "loop" => (i = time_steps /\ Len(net_forces) = time_steps))
    /\ [][i' # i =>
             /\ pc = "loop"
             /\ i' = i + 1
             /\ pressures_front'[i'] =
                   pressure(RAdd(x[i'], half_width), time[i'], R(0))]_vars
    /\ <>(pc = "done")

\* The script has ended after a run in which the cube left the region
\* within a quarter wavelength of the origin before the last step.
C8_Witness ==
    /\ pc = "done"
    /\ i = time_steps
    /\ \E j \in 1..time_steps :
          RLt(RSq(RDiv(wavelength, R(4))), RSq(x[j]))

IsPrefix(s, t) ==
    /\ Len(s) <= Len(t)
    /\ \A j \in 1..Len(s) : t[j] = s[j]

\* C9: every integration step puts exactly one element at the end of the
\* trajectory and of each derived series and leaves the elements already
\* stored as they were; downsampling and plotting leave all four alone.
C9_AppendOnly ==
    [][/\ IsPrefix(x, x')
       /\ IsPrefix(pressures_front, pressures_front')
       /\ IsPrefix(pressures_back, pressures_back')
       /\ IsPrefix(net_forces, net_forces')
       /\ pc' = "loop" =>
             /\ Len(x') = Len(x) + 1
             /\ Len(pressures_front') = Len(pressures_front) + 1
             /\ Len(pressures_back') = Len(pressures_back) + 1
             /\ Len(net_forces') = Len(net_forces) + 1
       /\ pc' # "loop" =>
             UNCHANGED <<x, pressures_front, pressures_back, net_forces>>
    ]_vars

C9_Witness == pc = "done" /\ Len(x) >= 4 /\ x[2] # x[3]

\* The trajectory after k steps when the loop is fed the instants of grid.
RECURSIVE trajectory_over(_, _)
trajectory_over(grid, k) ==
    IF k = 0 THEN <<R(0)>>
    ELSE LET before == trajectory_over(grid, k - 1)
             xl == before[k]
             F == net_force(xl, grid[k])
         IN  Append(before, position_update(xl, v, RDiv(F, cube_mass), dt))

============================================================================
